---- MODULE Spec2Model ----
(***************************************************************************)
(* Model of the websocket notification relay of ottu_ws:                   *)
(*   chalicelib/__init__.py  Storage, Sender, Handler                      *)
(*   app.py                  connect / disconnect / message handlers      *)
(*                                                                         *)
(* Strings that are identifiers are modelled as naturals: connection ids   *)
(* are 1..NumConns, merchant ids 1..NumMerchants, user ids 1..NumUsers,    *)
(* and 0 stands for the empty string "".  The DynamoDB table is a set of   *)
(* items; the ExpirationTime attribute, written from the wall clock and    *)
(* read by no operation, is left out of the items.                         *)
(***************************************************************************)
EXTENDS Naturals, Integers, Sequences, FiniteSets, TLC

\* ------------------------------------------------------------- bounds ----
NumConns == 2
NumMerchants == 2
NumUsers == 2
MaxSel == 2

CIDs == 1..NumConns
Merchants == 1..NumMerchants
Users == 1..NumUsers

\* the empty string "" (default of data.get(..., ""))
EmptyStr == 0

\* ------------------------------------------------- exceptions, values ----
NoExc == [exc |-> "none", site |-> "none"]
Exc(e, s) == [exc |-> e, site |-> s]

\* Python truthiness of a string-like identifier
TruthyStr(s) == s # EmptyStr

\* audience.data: "" | a user id | "__all__" | a list of user ids
EmptySel == [kind |-> "empty", uid |-> EmptyStr, ids |-> <<>>]
StrSel(u) == IF u = EmptyStr THEN EmptySel
             ELSE [kind |-> "str", uid |-> u, ids |-> <<>>]
AllSel == [kind |-> "all", uid |-> EmptyStr, ids |-> <<>>]
ListSel(s) == [kind |-> "list", uid |-> EmptyStr, ids |-> s]

\* Python truthiness of audience.data: "" and [] are falsy
TruthySel(sel) == CASE sel.kind = "empty" -> FALSE
                    [] sel.kind = "list" -> sel.ids # <<>>
                    [] OTHER -> TRUE

SeqsUpTo(S, n) == UNION {[1..k -> S] : k \in 0..n}

\* ------------------------------------------------------ DynamoDB table ----
Item(connection_id, merchant_id, user_id) ==
    [PK |-> connection_id, merchant_id |-> merchant_id, user_id |-> user_id]

\* put_item that adds the item and keeps an older item of the same key
put_item_noreplace(tbl, item) == tbl \cup {item}

\* Table.put_item: the item replaces any item with the same primary key
put_item(tbl, item) == {r \in tbl : r.PK # item.PK} \cup {item}

\* a delete that empties the table
delete_item_all(tbl, key) == {}

\* Table.delete_item(Key={"PK": key})
delete_item(tbl, key) == {r \in tbl : r.PK # key}

RECURSIVE SetToSeq(_)
SetToSeq(S) == IF S = {} THEN <<>>
               ELSE LET x == CHOOSE y \in S : TRUE
                    IN <<x>> \o SetToSeq(S \ {x})

\* the items of the table in the order the scan visits them: order is the
\* (unspecified) order in which the store walks the primary keys
RECURSIVE ItemsInOrder(_, _, _)
ItemsInOrder(tbl, order, i) ==
    IF i > Len(order) THEN <<>>
    ELSE SetToSeq({r \in tbl : r.PK = order[i]}) \o ItemsInOrder(tbl, order, i + 1)

\* FilterExpression: Key("merchant_id").eq(m), alone or
\* & Key("user_id").eq(f"{u}"); the f-string of a str is that str
MerchantIs(m) == [merchant_id |-> m, byUser |-> FALSE, user_id |-> EmptyStr]
MerchantAndUserAre(m, u) == [merchant_id |-> m, byUser |-> TRUE, user_id |-> u]
Matches(r, filter) ==
    /\ r.merchant_id = filter.merchant_id
    /\ filter.byUser => r.user_id = filter.user_id

\* None, as the value of LastEvaluatedKey / ExclusiveStartKey
NoKey == 0

\* the position of the item with primary key `key` in the walk, 0 for NoKey
RECURSIVE PositionOf(_, _, _)
PositionOf(items, key, i) ==
    IF key = NoKey \/ i > Len(items) THEN 0
    ELSE IF items[i].PK = key THEN i
    ELSE PositionOf(items, key, i + 1)

\* Table.scan(FilterExpression=..., ExclusiveStartKey=start): the store walks
\* the items after start, evaluates at most pageSize of them (one page),
\* answers those that pass the filter and, when items remain, the key of the
\* last item it evaluated as LastEvaluatedKey
scan(tbl, filter, order, start, pageSize) ==
    LET items == ItemsInOrder(tbl, order, 1)
        from == PositionOf(items, start, 1) + 1
        to == IF from + pageSize - 1 < Len(items) THEN from + pageSize - 1 ELSE Len(items)
    IN [Items |-> SelectSeq(SubSeq(items, from, to), LAMBDA r : Matches(r, filter)),
        LastEvaluatedKey |-> IF to < Len(items) THEN items[to].PK ELSE NoKey]

\* ------------------------------------------------------------- Storage ----
\* The execution state threaded through one handler invocation:
\*   table   the registry table
\*   sent    the calls of websocket_api.send, in order
\*   ops     the calls of the table's put_item / scan / delete_item, in order
\*   raised  the exception propagating out of the code run so far
\*   targets the list returned by handle_backend
\*   payload the dict `data` held by Handler.handle
\*   returned the value returned by the last call of delete_connection
StartExec(tbl) == [table |-> tbl, sent |-> <<>>, ops |-> <<>>, raised |-> NoExc,
                   targets |-> <<>>, payload |-> [none |-> TRUE],
                   returned |-> [none |-> TRUE]]

\* str(): a str (a number of the model) is returned as it is, any other
\* value as its text
str(v) == IF v \in Nat THEN v ELSE [str |-> v]

\* Storage.create_connection: logs only
create_connection(es, connection_id) == es

\* Storage.set_user_by_connection_id: put_item, any store exception logged
set_user_by_connection_id(es, connection_id, merchant_id, user_id, putOk) ==
    [es EXCEPT !.ops = Append(@, [op |-> "put", key |-> connection_id, ok |-> putOk]),
               !.table = IF putOk
                         THEN put_item(@, Item(connection_id, merchant_id, user_id))
                         ELSE @]

\* one `while not done:` loop of get_connection_ids_by_reference
\* st = [done, data, ops, raised].  scan_kwargs holds the FilterExpression
\* alone: every scan of the loop is sent without ExclusiveStartKey and is
\* answered with the first page.  When that page carries a LastEvaluatedKey,
\* done stays False and the same scan is sent again, without end (the loop
\* is stepped through in SpecScan): the call does not return.
scan_while(st, tbl, filter, order, scanOk, pageSize) ==
    IF st.done THEN st
    ELSE IF ~scanOk
         THEN [st EXCEPT !.ops = Append(@, [op |-> "scan", key |-> 0, ok |-> FALSE]),
                         !.raised = Exc("StoreError", "scan")]
         ELSE LET response == scan(tbl, filter, order, NoKey, pageSize)
                  start_key == response.LastEvaluatedKey
              IN IF start_key = NoKey
                 THEN [st EXCEPT !.ops = Append(@, [op |-> "scan", key |-> 0, ok |-> TRUE]),
                                 !.data = @ \o response.Items,
                                 !.done = TRUE]
                 ELSE [st EXCEPT !.ops = Append(@, [op |-> "scan", key |-> 0, ok |-> TRUE]),
                                 !.data = @ \o response.Items,
                                 !.raised = Exc("NeverReturns", "scan")]

\* `for user_id in user_ids:` of get_connection_ids_by_reference; done is
\* the one flag set before the loop
RECURSIVE scan_users(_, _, _, _, _, _, _, _)
scan_users(st, tbl, merchant_id, user_ids, i, order, scanOk, pageSize) ==
    IF i > Len(user_ids) \/ st.raised # NoExc THEN st
    ELSE scan_users(
            scan_while(st, tbl, MerchantAndUserAre(merchant_id, user_ids[i]),
                       order, scanOk, pageSize),
            tbl, merchant_id, user_ids, i + 1, order, scanOk, pageSize)

ToTargets(data) == [i \in 1..Len(data) |-> [cid |-> data[i].PK, user_id |-> data[i].user_id]]

\* Storage.get_connection_ids_by_reference; returns [done, data, ops, raised]
\* with data already mapped to the {"cid", "user_id"} dicts
get_connection_ids_by_reference(tbl, merchant_id, user_ids, order, scanOk, pageSize) ==
    LET st0 == [done |-> FALSE, data |-> <<>>, ops |-> <<>>, raised |-> NoExc]
        st1 == IF user_ids.kind = "all"
               THEN scan_while(st0, tbl, MerchantIs(merchant_id), order, scanOk, pageSize)
               ELSE scan_users(st0, tbl, merchant_id, user_ids.ids, 1, order, scanOk,
                               pageSize)
    IN [st1 EXCEPT !.data = ToTargets(@)]

\* Storage.delete_connection: delete_item, any store exception logged;
\* returns str(connection_id)
delete_connection(es, connection_id, delOk) ==
    IF connection_id # EmptyStr
    THEN [es EXCEPT !.ops = Append(@, [op |-> "delete", key |-> connection_id, ok |-> delOk]),
                    !.table = IF delOk THEN delete_item(@, connection_id) ELSE @,
                    !.returned = str(connection_id)]
    ELSE [es EXCEPT !.returned = str(connection_id)]

\* -------------------------------------------------------------- Sender ----
\* json.dumps / json.loads: a JSON text carries the value it encodes
dumps(d) == [kind |-> "json", data |-> d]
loads(raw) == raw.data

\* a reply other than the literal "pong"
Pong_wrong == [kind |-> "text", text |-> "ping"]

\* the literal "pong"
Pong == [kind |-> "text", text |-> "pong"]

HasKey(d, k) == k \in DOMAIN d

\* del d[k]
DelKey(d, k) == [x \in DOMAIN d \ {k} |-> d[x]]

\* the test of content.message inverted
TruthyText_neg(t) == t = ""

\* Python truthiness of content.message ("" is falsy)
TruthyText(t) == t # ""

\* copy.copy(data): a new dict whose content dict is that of data
deepcopy_shallow(d) == [value |-> d, sharesContent |-> TRUE]

\* copy.deepcopy(data): a new value sharing nothing with data
deepcopy(d) == [value |-> d, sharesContent |-> FALSE]

\* send that swallows WebsocketDisconnectedError without the cleanup
send_nocleanup(es, connection_id, data, liveNow, delFail) ==
    [es EXCEPT !.sent = Append(@, [cid |-> connection_id, data |-> data,
                                   delivered |-> connection_id \in liveNow])]

\* send that asks for the deletion after every send, delivered or not
send_always_cleanup(es, connection_id, data, liveNow, delFail) ==
    delete_connection(
        [es EXCEPT !.sent = Append(@, [cid |-> connection_id, data |-> data,
                                       delivered |-> connection_id \in liveNow])],
        connection_id, connection_id \notin delFail)

\* Sender.send: websocket_api.send(connection_id, str(data)); str() of a str
\* is that str.  A connection that is not live makes the transport raise
\* WebsocketDisconnectedError, caught here and answered by delete_connection.
send(es, connection_id, data, liveNow, delFail) ==
    IF connection_id \in liveNow
    THEN [es EXCEPT !.sent = Append(@, [cid |-> connection_id, data |-> data,
                                        delivered |-> TRUE])]
    ELSE delete_connection(
            [es EXCEPT !.sent = Append(@, [cid |-> connection_id, data |-> data,
                                           delivered |-> FALSE])],
            connection_id, connection_id \notin delFail)

\* `del message_data["content"]["message"]` on the copy; a copy that shares
\* its content dict with data changes data as well
del_message(es, message_data) ==
    LET reduced == [message_data.value EXCEPT !.content = DelKey(@, "message")]
    IN [es |-> IF message_data.sharesContent
               THEN [es EXCEPT !.payload = [@ EXCEPT !.content = DelKey(@, "message")]]
               ELSE es,
        value |-> reduced]

\* the body of `for cid in connection_ids:` of Sender.broadcast
broadcast_body(es, cid, liveNow, delFail) ==
    LET data == es.payload
        message_data == deepcopy(data)
    IN  IF ~HasKey(data.audience, "message")
        THEN [es EXCEPT !.raised = Exc("TypeError", "broadcast")]
        ELSE IF cid.user_id \in data.audience.message
        THEN send(es, cid.cid, dumps(data), liveNow, delFail)
        ELSE IF ~HasKey(message_data.value, "content")
                \/ ~HasKey(message_data.value.content, "message")
        THEN [es EXCEPT !.raised = Exc("KeyError", "broadcast")]
        ELSE IF TruthyText(message_data.value.content.message)
        THEN LET d == del_message(es, message_data)
             IN send(d.es, cid.cid, dumps(d.value), liveNow, delFail)
        ELSE send(es, cid.cid, dumps(message_data.value), liveNow, delFail)

\* Sender.broadcast
RECURSIVE broadcast_from(_, _, _, _, _)
broadcast_from(es, connection_ids, i, liveNow, delFail) ==
    IF i > Len(connection_ids) \/ es.raised # NoExc THEN es
    ELSE broadcast_from(broadcast_body(es, connection_ids[i], liveNow, delFail),
                        connection_ids, i + 1, liveNow, delFail)

broadcast(es, connection_ids, data, liveNow, delFail) ==
    broadcast_from([es EXCEPT !.payload = data], connection_ids, 1, liveNow, delFail)

\* ------------------------------------------------------------- Handler ----
\* handle_frontend that asks for merchant_id or user_id
handle_frontend_or(es, connection_id, merchant_id, user_id, putOk) ==
    IF TruthyStr(merchant_id) \/ TruthySel(user_id)
    THEN set_user_by_connection_id(es, connection_id, merchant_id, user_id.uid, putOk)
    ELSE [es EXCEPT !.raised = Exc("TypeError", "handle_frontend")]

\* Handler.handle_frontend
handle_frontend(es, connection_id, merchant_id, user_id, putOk) ==
    IF TruthyStr(merchant_id) /\ TruthySel(user_id)
    THEN set_user_by_connection_id(es, connection_id, merchant_id, user_id.uid, putOk)
    ELSE [es EXCEPT !.raised = Exc("TypeError", "handle_frontend")]

\* handle_backend whose TypeError is raised outside the try block
handle_backend_raise(es, merchant_id, user_id, order, scanOk, pageSize) ==
    IF TruthyStr(merchant_id) /\ TruthySel(user_id)
    THEN LET r == get_connection_ids_by_reference(es.table, merchant_id, user_id,
                                                  order, scanOk, pageSize)
         IN [es EXCEPT !.ops = @ \o r.ops,
                       !.targets = IF r.raised = NoExc THEN r.data ELSE <<>>,
                       !.raised = IF r.raised.exc = "NeverReturns" THEN r.raised ELSE @]
    ELSE [es EXCEPT !.targets = <<>>, !.raised = Exc("TypeError", "handle_backend")]

\* Handler.handle_backend: every exception of the try block is logged and
\* answered by the empty list; a scan loop that does not end keeps
\* handle_backend, and handle, from returning
handle_backend(es, merchant_id, user_id, order, scanOk, pageSize) ==
    IF TruthyStr(merchant_id) /\ TruthySel(user_id)
    THEN LET r == get_connection_ids_by_reference(es.table, merchant_id, user_id,
                                                  order, scanOk, pageSize)
         IN [es EXCEPT !.ops = @ \o r.ops,
                       !.targets = IF r.raised = NoExc THEN r.data ELSE <<>>,
                       !.raised = IF r.raised.exc = "NeverReturns" THEN r.raised ELSE @]
    ELSE [es EXCEPT !.targets = <<>>]

\* data.get("audience", {}).get("data", "")
AudienceData(data) ==
    IF HasKey(data, "audience") /\ HasKey(data.audience, "data")
    THEN data.audience.data ELSE EmptySel

\* handle that answers a frame of any other role like a ping
handle_else_pong(es, connection_id, message, liveNow, order, putOk, scanOk, delFail, pageSize) ==
    IF message.kind = "none" THEN es
    ELSE IF message.kind # "json"
    THEN [es EXCEPT !.raised = Exc("JSONDecodeError", "handle")]
    ELSE LET data == loads(message) IN
    IF ~HasKey(data, "id")
    THEN [es EXCEPT !.raised = Exc("AttributeError", "handle")]
    ELSE LET client == data.id.type
             user_id == AudienceData(data)
             merchant_id == data.id.merchant_id
         IN CASE client = "frontend" ->
                   handle_frontend(es, connection_id, merchant_id, user_id, putOk)
              [] client = "backend" ->
                   LET b == handle_backend(es, merchant_id, user_id, order, scanOk,
                                           pageSize)
                   IN IF b.raised = NoExc /\ b.targets # <<>>
                      THEN broadcast(b, b.targets, data, liveNow, delFail)
                      ELSE b
              [] client = "ping" -> send(es, connection_id, Pong, liveNow, delFail)
              [] OTHER -> send(es, connection_id, Pong, liveNow, delFail)

\* Handler.handle
handle(es, connection_id, message, liveNow, order, putOk, scanOk, delFail, pageSize) ==
    IF message.kind = "none" THEN es
    ELSE IF message.kind # "json"
    THEN [es EXCEPT !.raised = Exc("JSONDecodeError", "handle")]
    ELSE LET data == loads(message) IN
    IF ~HasKey(data, "id")
    THEN [es EXCEPT !.raised = Exc("AttributeError", "handle")]
    ELSE LET client == data.id.type
             user_id == AudienceData(data)
             merchant_id == data.id.merchant_id
         IN CASE client = "frontend" ->
                   handle_frontend(es, connection_id, merchant_id, user_id, putOk)
              [] client = "backend" ->
                   LET b == handle_backend(es, merchant_id, user_id, order, scanOk,
                                           pageSize)
                   IN IF b.raised = NoExc /\ b.targets # <<>>
                      THEN broadcast(b, b.targets, data, liveNow, delFail)
                      ELSE b
              [] client = "ping" -> send(es, connection_id, Pong, liveNow, delFail)
              [] OTHER -> es

\* ------------------------------------------------------ inbound frames ----
IdBlock(type, m) == [type |-> type, merchant_id |-> m]

FrontendMsgs ==
    {dumps([id |-> IdBlock("frontend", m), audience |-> [data |-> StrSel(u)]]) :
        m \in {EmptyStr} \cup Merchants, u \in {EmptyStr} \cup Users}

Selectors == {EmptySel, AllSel} \cup {ListSel(s) : s \in SeqsUpTo(Users, MaxSel)}

Audiences == {[data |-> sel] : sel \in Selectors}
             \cup {[data |-> sel, message |-> a] : sel \in Selectors, a \in SUBSET Users}

Contents == {[alert |-> "success"]}
            \cup {[alert |-> "success", message |-> t] : t \in {"", "report finished"}}

BackendMsgs ==
    {dumps([id |-> IdBlock("backend", m), audience |-> a, content |-> c]) :
        m \in {EmptyStr} \cup Merchants, a \in Audiences, c \in Contents}

PingMsg == dumps([id |-> IdBlock("ping", EmptyStr)])
OtherRoleMsg == dumps([id |-> IdBlock("other", EmptyStr)])
NoIdMsg == dumps([audience |-> [data |-> AllSel]])
NoBody == [kind |-> "none"]
NotJson == [kind |-> "text", text |-> "not json"]

Messages == FrontendMsgs \cup BackendMsgs
            \cup {PingMsg, OtherRoleMsg, NoIdMsg, NoBody, NotJson}

\* the orders in which a scan may walk the primary keys held by the table
Orders(tbl) ==
    LET keys == {r.PK : r \in tbl}
        n == Cardinality(keys)
    IN {o \in [1..n -> keys] : \A i, j \in 1..n : o[i] = o[j] => i = j}

\* the numbers of items a page of the scan may hold, as far as they differ
\* for this table: the whole table in one page, or fewer items
PageSizes(tbl) == 1..(IF tbl = {} THEN 1 ELSE Cardinality(tbl))

\* What decides one run of Handler.handle besides the table: the frame, the
\* order of the scan, which store operations fail (put_item, scan,
\* delete_item of the connections in delFail) and the size of the scan's
\* pages.  Only the inputs the frame's branch of handle reads are varied; a
\* delete is attempted only for a connection that is not live.
Input(m, order, putOk, scanOk, delFail, pageSize) ==
    [m |-> m, order |-> order, putOk |-> putOk, scanOk |-> scanOk, delFail |-> delFail,
     pageSize |-> pageSize]

FrameInputs(tbl, c, live) ==
    {Input(m, <<>>, p, TRUE, {}, 1) : m \in FrontendMsgs, p \in BOOLEAN}
    \cup {Input(m, o, TRUE, s, f, ps) : m \in BackendMsgs, o \in Orders(tbl),
                                        s \in BOOLEAN, f \in SUBSET (CIDs \ live),
                                        ps \in PageSizes(tbl)}
    \cup {Input(PingMsg, <<>>, TRUE, TRUE, f, 1) : f \in SUBSET ({c} \ live)}
    \cup {Input(m, <<>>, TRUE, TRUE, {}, 1) : m \in {OtherRoleMsg, NoIdMsg, NoBody, NotJson}}

\* ------------------------------------------------------- state machine ----
VARIABLES
    table,    \* the registry table: a set of items
    conn,     \* transport: the session state of each connection id
    call,     \* the last handler invocation: [handler, cid, message]
    pre,      \* the table when that invocation began
    sent,     \* its calls of websocket_api.send
    ops,      \* its calls of the table's operations
    raised,   \* the exception it raised to the transport, or NoExc
    targets,  \* the list handle_backend returned in it
    payload,  \* the dict `data` of Handler.handle when it ended
    returned, \* the value its last call of delete_connection returned
    frames    \* the locals of the calls in progress (handlers run step by step)

vars == <<table, conn, call, pre, sent, ops, raised, targets, payload, returned, frames>>

liveNow == {c \in CIDs : conn[c] = "live"}

NoCall == [handler |-> "none", cid |-> EmptyStr, message |-> NoBody]
NoPayload == [none |-> TRUE]
NoReturn == [none |-> TRUE]
NoFrames == <<>>
idle == call = NoCall

Record(h, c, m, es) ==
    /\ call' = [handler |-> h, cid |-> c, message |-> m]
    /\ pre' = table
    /\ table' = es.table
    /\ sent' = es.sent
    /\ ops' = es.ops
    /\ raised' = es.raised
    /\ targets' = es.targets
    /\ payload' = es.payload
    /\ returned' = es.returned
    /\ UNCHANGED frames

Init ==
    /\ table = {}
    /\ conn = [c \in CIDs |-> "new"]
    /\ call = NoCall
    /\ pre = {}
    /\ sent = <<>>
    /\ ops = <<>>
    /\ raised = NoExc
    /\ targets = <<>>
    /\ payload = NoPayload
    /\ returned = NoReturn
    /\ frames = NoFrames

\* app.connect: the transport opens a session and calls create_connection
Connect(c) ==
    /\ idle
    /\ conn[c] = "new"
    /\ conn' = [conn EXCEPT ![c] = "live"]
    /\ Record("connect", c, NoBody, create_connection(StartExec(table), c))

\* the session ends at the transport; its disconnect event is still to come
Drop(c) ==
    /\ conn[c] = "live"
    /\ conn' = [conn EXCEPT ![c] = "dropped"]
    /\ UNCHANGED <<table, call, pre, sent, ops, raised, targets, payload, returned, frames>>

\* app.disconnect
Disconnect(c) ==
    /\ idle
    /\ conn[c] = "dropped"
    /\ conn' = [conn EXCEPT ![c] = "closed"]
    /\ \E delOk \in BOOLEAN :
          Record("disconnect", c, NoBody, delete_connection(StartExec(table), c, delOk))

\* app.message: a frame of connection c reaches Handler.handle; the session
\* may have ended at the transport since the frame was sent
Message(c) ==
    /\ idle
    /\ conn[c] \in {"live", "dropped"}
    /\ UNCHANGED conn
    /\ \E in \in FrameInputs(table, c, liveNow) :
          Record("message", c, in.m,
                 handle(StartExec(table), c, in.m, liveNow, in.order, in.putOk,
                        in.scanOk, in.delFail, in.pageSize))

\* the invocation is over for the transport (it returned, raised, or was
\* given up as not returning): its record is dropped
Return ==
    /\ ~idle
    /\ call' = NoCall
    /\ pre' = {}
    /\ sent' = <<>>
    /\ ops' = <<>>
    /\ raised' = NoExc
    /\ targets' = <<>>
    /\ payload' = NoPayload
    /\ returned' = NoReturn
    /\ UNCHANGED <<table, conn, frames>>

Next ==
    \/ \E c \in CIDs : Connect(c) \/ Drop(c) \/ Disconnect(c) \/ Message(c)
    \/ Return

Spec == Init /\ [][Next]_vars

TypeOK ==
    /\ \A r \in table : r.PK \in CIDs /\ r.merchant_id \in Merchants /\ r.user_id \in Users
    /\ conn \in [CIDs -> {"new", "live", "dropped", "closed"}]

\* ========================================================= properties ====
\* what the last handler invocation was, read from its record
IsFrame == call.handler = "message"
HasEnvelope == IsFrame /\ call.message.kind = "json" /\ HasKey(loads(call.message), "id")
CallData == loads(call.message)
RoleIs(r) == HasEnvelope /\ CallData.id.type = r
CallMerchant == CallData.id.merchant_id
CallSel == AudienceData(CallData)
ValidScope == TruthyStr(CallMerchant) /\ TruthySel(CallSel)
IsBroadcast == RoleIs("backend") /\ targets # <<>>
AllowList == CallData.audience.message
HasAllowList == HasKey(CallData.audience, "message")
HasMessage(d) == HasKey(d, "content") /\ HasKey(d.content, "message")
OtherFields(d) == IF HasKey(d, "content")
                  THEN [d EXCEPT !.content = DelKey(@, "message")] ELSE d
RowsOf(tbl, c) == {r \in tbl : r.PK = c}
ScanFailed == \E k \in DOMAIN ops : ops[k].op = "scan" /\ ~ops[k].ok
Target(c, u) == [cid |-> c, user_id |-> u]
InSeq(x, q) == \E k \in DOMAIN q : q[k] = x

\* ---- C1 ----------------------------------------------------------------
\* C1 (as claimed): a resolve with an explicit list of user ids returns the
\* union over every user id of the list: each Registration of the merchant
\* whose user_id occurs in the list is in the result.
C1_ResolveUnion ==
    (RoleIs("backend") /\ ValidScope /\ CallSel.kind = "list" /\ ~ScanFailed)
    => \A r \in pre :
          (r.merchant_id = CallMerchant /\ InSeq(r.user_id, CallSel.ids))
          => InSeq(Target(r.PK, r.user_id), targets)

\* ---- C2 ----------------------------------------------------------------
\* C2 (as claimed): in a broadcast, a target whose user_id is in the
\* allow-list is sent the payload with content.message intact, a target whose
\* user_id is not in it is sent a payload without content.message, and all
\* other fields are the same for every recipient.
C2_RedactionAbsent ==
    IsBroadcast
    => \A i \in DOMAIN sent :
          LET p == loads(sent[i].data) IN
          /\ sent[i].cid = targets[i].cid
          /\ OtherFields(p) = OtherFields(CallData)
          /\ targets[i].user_id \in AllowList => p = CallData
          /\ targets[i].user_id \notin AllowList => ~HasMessage(p)

\* C2 (amended): as C2, but a target outside the allow-list is sent a payload
\* without content.message only when the payload's content.message is truthy;
\* a falsy (empty) content.message is sent to it unchanged.
C2_RedactionTruthy ==
    IsBroadcast
    => \A i \in DOMAIN sent :
          LET p == loads(sent[i].data) IN
          /\ sent[i].cid = targets[i].cid
          /\ OtherFields(p) = OtherFields(CallData)
          /\ targets[i].user_id \in AllowList => p = CallData
          /\ targets[i].user_id \notin AllowList =>
                IF CallData.content.message # ""
                THEN ~HasMessage(p)
                ELSE p = CallData

\* C2 witness: a broadcast of a payload with a non-empty content.message that
\* reached one target inside the allow-list and one outside it.
C2_Witness ==
    /\ IsBroadcast
    /\ HasMessage(CallData) /\ CallData.content.message # ""
    /\ Len(sent) = 2
    /\ \E i, j \in DOMAIN sent :
          /\ targets[i].user_id \in AllowList /\ HasMessage(loads(sent[i].data))
          /\ targets[j].user_id \notin AllowList /\ ~HasMessage(loads(sent[j].data))

\* ---- C3 ----------------------------------------------------------------
DeadSends == {i \in DOMAIN sent : ~sent[i].delivered}
DeleteOf(c, ok) == [op |-> "delete", key |-> c, ok |-> ok]
\* the frames whose only registry changes are those of Sender.send
SendingFrame == RoleIs("ping") \/ RoleIs("backend")

\* C3 (as claimed): a send the transport refuses with
\* WebsocketDisconnectedError propagates nothing and leaves the registry
\* without a Registration of that connection; sends the transport accepts
\* leave the registry unchanged.
C3_DeadSendUnregisters ==
    SendingFrame
    => /\ raised.exc # "WebsocketDisconnectedError"
       /\ \A i \in DeadSends : RowsOf(table, sent[i].cid) = {}
       /\ DeadSends = {} => table = pre

\* C3 (amended): a refused send propagates nothing and calls
\* delete_connection for that connection: the registry holds no Registration
\* of it afterwards when the store's delete succeeds, and keeps the table as
\* it was for that connection when the delete fails (the failure is logged).
\* Sends the transport accepts leave the registry unchanged.
C3_DeadSendCleanup ==
    SendingFrame
    => /\ raised.exc # "WebsocketDisconnectedError"
       /\ \A i \in DeadSends :
             LET c == sent[i].cid IN
             \/ InSeq(DeleteOf(c, TRUE), ops) /\ RowsOf(table, c) = {}
             \/ InSeq(DeleteOf(c, FALSE), ops) /\ RowsOf(table, c) = RowsOf(pre, c)
       /\ \A c \in CIDs :
             (\A i \in DeadSends : sent[i].cid # c) => RowsOf(table, c) = RowsOf(pre, c)

\* C3 witness: a send to a registered connection was refused and its
\* Registration is gone.
C3_Witness ==
    /\ SendingFrame
    /\ raised = NoExc
    /\ \E i \in DeadSends :
          RowsOf(pre, sent[i].cid) # {} /\ RowsOf(table, sent[i].cid) = {}

\* ---- C4 ----------------------------------------------------------------
\* C4 (as claimed): in a broadcast every target of the resolved set gets
\* exactly one send attempt, whatever targets are live or dead.
C4_OneAttemptPerTarget ==
    (IsBroadcast /\ HasAllowList)
    => /\ Len(sent) = Len(targets)
       /\ \A i \in DOMAIN targets : sent[i].cid = targets[i].cid

\* C4 for the payloads that have a content.message field: there every
\* target gets its one send attempt, after dead targets too.
C4_OneAttemptWithMessage ==
    (IsBroadcast /\ HasAllowList /\ HasMessage(CallData))
    => /\ raised = NoExc
       /\ Len(sent) = Len(targets)
       /\ \A i \in DOMAIN targets : sent[i].cid = targets[i].cid

\* a broadcast to two targets of which the first was dead
C4_DeadThenLive ==
    /\ IsBroadcast /\ Len(sent) = 2
    /\ ~sent[1].delivered /\ sent[2].delivered

\* ---- C5 ----------------------------------------------------------------
\* C5 (as claimed): the only error handle raises to its caller is the
\* TypeError of a frontend event without merchant_id or user_id.
C5_OnlyInvalidScopeSurfaces ==
    (IsFrame /\ call.message.kind = "json")
    => \/ raised = NoExc
       \/ raised = Exc("TypeError", "handle_frontend") /\ RoleIs("frontend") /\ ~ValidScope

\* ---- C6 ----------------------------------------------------------------
\* C6 (as claimed): a target outside the allow-list, for a payload whose
\* content has no message field, is sent the copy as it is, without an error,
\* and the broadcast goes on to the remaining targets.
C6_AbsentMessageSentAsIs ==
    (IsBroadcast /\ HasAllowList /\ ~HasMessage(CallData))
    => /\ raised = NoExc
       /\ Len(sent) = Len(targets)
       /\ \A i \in DOMAIN sent :
             sent[i].cid = targets[i].cid /\ loads(sent[i].data) = CallData

\* ---- C7 ----------------------------------------------------------------
PongTo(c) ==
    Len(sent) = 1 /\ sent[1].cid = c /\ sent[1].data = [kind |-> "text", text |-> "pong"]

\* C7 (as claimed): a ping makes exactly one send of "pong" to the
\* originating connection and no registry operation, live or not.
C7_PingNoRegistryOps ==
    RoleIs("ping") => PongTo(call.cid) /\ ops = <<>>

\* C7 (amended): a ping makes exactly one send of "pong" to the originating
\* connection, no put and no scan; it makes no registry operation at all when
\* that connection is live, and exactly one delete, of that connection, when
\* the transport refuses the send.
C7_PingOpsByLiveness ==
    RoleIs("ping")
    => /\ PongTo(call.cid)
       /\ raised = NoExc
       /\ sent[1].delivered => ops = <<>> /\ table = pre
       /\ ~sent[1].delivered =>
             /\ Len(ops) = 1 /\ ops[1].op = "delete" /\ ops[1].key = call.cid
             /\ \A c \in CIDs \ {call.cid} : RowsOf(table, c) = RowsOf(pre, c)

\* C7 witness: a ping of a registered connection whose session had ended.
C7_Witness ==
    /\ RoleIs("ping")
    /\ PongTo(call.cid)
    /\ ~sent[1].delivered
    /\ RowsOf(pre, call.cid) # {}
    /\ ops = <<DeleteOf(call.cid, TRUE)>>

C9_InvalidBackendSkipped ==
    (RoleIs("backend") /\ ~ValidScope)
    => /\ raised = NoExc
       /\ targets = <<>>
       /\ sent = <<>>
       /\ table = pre

\* C9 witness: a backend event without merchant_id, selector __all__, while
\* a live connection is registered.
C9_Witness ==
    /\ RoleIs("backend")
    /\ ~TruthyStr(CallMerchant) /\ CallSel = AllSel
    /\ raised = NoExc /\ sent = <<>>
    /\ \E r \in table : conn[r.PK] = "live"

\* ---- C10 ---------------------------------------------------------------
OnePerConnection == \A r1, r2 \in table : r1.PK = r2.PK => r1 = r2
PutAttempted(ok) == ops = <<[op |-> "put", key |-> call.cid, ok |-> ok]>>

\* what resolve returns for a scope, over every order and page size of the
\* scan for which it returns
Resolves(tbl, m, sel) ==
    LET runs == {get_connection_ids_by_reference(tbl, m, sel, o, TRUE, ps) :
                    o \in Orders(tbl), ps \in PageSizes(tbl)}
    IN {r.data : r \in {x \in runs : x.raised = NoExc}}

\* connection c is returned by no resolve for a scope other than (m, u)
OnlyUnder(tbl, c, m, u) ==
    \A m2 \in Merchants, sel \in {AllSel} \cup {ListSel(<<u2>>) : u2 \in Users} :
        \A res \in Resolves(tbl, m2, sel) :
            \A k \in DOMAIN res :
                res[k].cid = c => m2 = m /\ res[k].user_id = u

\* C10 (as claimed): the registry never holds two Registrations of one
\* connection, and after a register call the stored scope of the connection
\* is that of this last call, so that no resolve for another scope returns
\* the connection.
C10_LastWriteWins ==
    /\ OnePerConnection
    /\ (RoleIs("frontend") /\ ValidScope)
       => /\ RowsOf(table, call.cid) = {Item(call.cid, CallMerchant, CallSel.uid)}
          /\ OnlyUnder(table, call.cid, CallMerchant, CallSel.uid)

\* C10 (amended): the registry never holds two Registrations of one
\* connection, and after a register call whose store write succeeded the
\* stored scope of the connection is that of this call and no resolve for
\* another scope returns the connection; a register call whose store write
\* failed (logged, not raised) leaves the registry as it was.
C10_LastSuccessfulWriteWins ==
    /\ OnePerConnection
    /\ (RoleIs("frontend") /\ ValidScope)
       => /\ raised = NoExc
          /\ \/ /\ PutAttempted(TRUE)
                /\ RowsOf(table, call.cid) = {Item(call.cid, CallMerchant, CallSel.uid)}
                /\ OnlyUnder(table, call.cid, CallMerchant, CallSel.uid)
                /\ \A c \in CIDs \ {call.cid} : RowsOf(table, c) = RowsOf(pre, c)
             \/ /\ PutAttempted(FALSE)
                /\ table = pre

\* C10 witness: a connection registered under one scope registers again
\* under another merchant and user.
C10_Witness ==
    /\ RoleIs("frontend") /\ ValidScope
    /\ PutAttempted(TRUE)
    /\ \E r \in pre : /\ r.PK = call.cid
                      /\ r.merchant_id # CallMerchant
                      /\ r.user_id # CallSel.uid
    /\ RowsOf(table, call.cid) = {Item(call.cid, CallMerchant, CallSel.uid)}

\* ---- C11 ---------------------------------------------------------------
\* every run of resolve for a scope, over every order and page size of the
\* scan, the scans themselves succeeding
ResolveRuns(tbl, m, sel) ==
    {get_connection_ids_by_reference(tbl, m, sel, o, TRUE, ps) :
        o \in Orders(tbl), ps \in PageSizes(tbl)}

\* the runs of resolve whose scans the store answers in one page
OnePageRuns(tbl, m, sel) ==
    {get_connection_ids_by_reference(tbl, m, sel, o, TRUE, Cardinality(tbl) + 1) :
        o \in Orders(tbl)}

CountOf(c, data) == Cardinality({k \in DOMAIN data : data[k].cid = c})
Registered == RoleIs("frontend") /\ ValidScope /\ PutAttempted(TRUE)

\* C11 (as claimed): after register(c, m, u) with non-empty m and u (stored),
\* resolve(m, all users) returns and its result holds c exactly once, paired
\* with u, whatever other Registrations exist.
C11_AllUsersHasRegistered ==
    Registered
    => \A r \in ResolveRuns(table, CallMerchant, AllSel) :
          /\ r.raised = NoExc
          /\ CountOf(call.cid, r.data) = 1
          /\ InSeq(Target(call.cid, CallSel.uid), r.data)

\* C11, for the scans the store answers in one page: holds.
C11_AllUsersOnePage ==
    Registered
    => \A r \in OnePageRuns(table, CallMerchant, AllSel) :
          /\ r.raised = NoExc
          /\ CountOf(call.cid, r.data) = 1
          /\ InSeq(Target(call.cid, CallSel.uid), r.data)

\* ---- C12 ---------------------------------------------------------------
\* no run of resolve, for any merchant and selector, returns an entry of c
NeverResolved(tbl, c) ==
    \A m \in Merchants, sel \in {AllSel} \cup {ListSel(q) : q \in SeqsUpTo(Users, MaxSel)} :
        \A r \in ResolveRuns(tbl, m, sel) : CountOf(c, r.data) = 0
Unregistered == call.handler = "disconnect" /\ ops = <<DeleteOf(call.cid, TRUE)>>

\* C12 (as claimed): after register(c, m, u) (stored), resolve(m, [u])
\* returns a sequence that contains (c, u); after the disconnect event of c
\* (its delete done), no resolve for any scope returns an entry of c.
C12_RegisterResolveUnregister ==
    /\ Registered
       => \A r \in ResolveRuns(table, CallMerchant, ListSel(<<CallSel.uid>>)) :
             r.raised = NoExc /\ InSeq(Target(call.cid, CallSel.uid), r.data)
    /\ Unregistered => NeverResolved(table, call.cid)

\* C12, for the scans the store answers in one page: holds.
C12_OnePage ==
    /\ Registered
       => \A r \in OnePageRuns(table, CallMerchant, ListSel(<<CallSel.uid>>)) :
             r.raised = NoExc /\ InSeq(Target(call.cid, CallSel.uid), r.data)
    /\ Unregistered => NeverResolved(table, call.cid)

\* ---- C13 ---------------------------------------------------------------
\* C13: delete_connection for a connection that has no Registration raises
\* nothing, returns the connection identifier and leaves the registry, every
\* other Registration included, as it was (also when the store's delete
\* fails: the exception is logged).
C13_UnregisterAbsentNoop ==
    (call.handler = "disconnect" /\ RowsOf(pre, call.cid) = {})
    => /\ raised = NoExc
       /\ returned = call.cid
       /\ table = pre
       /\ sent = <<>>

\* C13 witness: the disconnect event of a connection that never registered,
\* its delete done, while another connection is registered.
C13_Witness ==
    /\ call.handler = "disconnect"
    /\ RowsOf(pre, call.cid) = {}
    /\ ops = <<DeleteOf(call.cid, TRUE)>>
    /\ returned = call.cid
    /\ \E r \in table : r.PK # call.cid

\* ---- C14 ---------------------------------------------------------------
\* Storage.get_connection_ids_by_reference run scan by scan.  The frame holds
\* the arguments, the locals (done, data, start_key), the position i in
\* `for user_id in user_ids` and the number of scans sent so far; the store
\* answers pageSize items per page, in the order `order`.
MaxScans == 3

AllItems == {Item(c, m, u) : c \in CIDs, m \in Merchants, u \in Users}
Tables == {t \in SUBSET AllItems : \A r1, r2 \in t : r1.PK = r2.PK => r1 = r2}

ScanFrame(merchant_id, user_ids, order, pageSize) ==
    [fn |-> "get_connection_ids_by_reference", pc |-> "loop",
     merchant_id |-> merchant_id, user_ids |-> user_ids,
     order |-> order, pageSize |-> pageSize,
     i |-> 1, done |-> FALSE, data |-> <<>>, start_key |-> NoKey, scans |-> 0,
     result |-> <<>>]

InitScan ==
    /\ table \in Tables
    /\ \E m \in Merchants, sel \in Selectors \ {EmptySel},
          o \in Orders(table), ps \in PageSizes(table) :
          frames = <<ScanFrame(m, sel, o, ps)>>
    /\ conn = [c \in CIDs |-> "new"]
    /\ call = NoCall
    /\ pre = {}
    /\ sent = <<>>
    /\ ops = <<>>
    /\ raised = NoExc
    /\ targets = <<>>
    /\ payload = NoPayload
    /\ returned = NoReturn

ScanFilter(f) ==
    IF f.user_ids.kind = "all" THEN MerchantIs(f.merchant_id)
    ELSE MerchantAndUserAre(f.merchant_id, f.user_ids.ids[f.i])
InWhile(f) ==
    /\ f.pc = "loop"
    /\ f.user_ids.kind = "all" \/ f.i <= Len(f.user_ids.ids)

\* one turn of `while not done:`: the scan is sent with scan_kwargs, which
\* holds no ExclusiveStartKey, and its page is appended to data
ScanPage ==
    /\ InWhile(frames[1]) /\ ~frames[1].done
    /\ frames[1].scans < MaxScans
    /\ LET f == frames[1]
           response == scan(table, ScanFilter(f), f.order, NoKey, f.pageSize)
       IN frames' = <<[f EXCEPT !.data = @ \o response.Items,
                                !.start_key = response.LastEvaluatedKey,
                                !.done = (response.LastEvaluatedKey = NoKey),
                                !.scans = @ + 1]>>
    /\ UNCHANGED <<table, conn, call, pre, sent, ops, raised, targets, payload, returned>>

\* `for user_id in user_ids`: the while loop of this user id is over (done
\* is not set back to False for the next one)
NextUserId ==
    /\ InWhile(frames[1]) /\ frames[1].done
    /\ frames[1].user_ids.kind = "list"
    /\ frames' = <<[frames[1] EXCEPT !.i = @ + 1]>>
    /\ UNCHANGED <<table, conn, call, pre, sent, ops, raised, targets, payload, returned>>

\* the return statement
ReturnTargets ==
    /\ frames[1].pc = "loop"
    /\ \/ frames[1].user_ids.kind = "all" /\ frames[1].done
       \/ frames[1].user_ids.kind = "list" /\ frames[1].i > Len(frames[1].user_ids.ids)
    /\ frames' = <<[frames[1] EXCEPT !.pc = "returned", !.result = ToTargets(frames[1].data)]>>
    /\ UNCHANGED <<table, conn, call, pre, sent, ops, raised, targets, payload, returned>>

NextScan == ScanPage \/ NextUserId \/ ReturnTargets

SpecScan == InitScan /\ [][NextScan]_vars

\* the number of pages in which the store answers a scan of the table
PagesOf(tbl, pageSize) ==
    IF tbl = {} THEN 1 ELSE (Cardinality(tbl) + pageSize - 1) \div pageSize
MatchingRows(tbl, m) == {r \in tbl : r.merchant_id = m}
Occurrences(x, q) == Cardinality({k \in DOMAIN q : q[k] = x})

\* C14 (as claimed): a resolve whose scan is answered in several pages ends
\* after one scan per page (no page is returned repeatedly), and what it
\* returns for the selector __all__ holds each Registration of the merchant
\* exactly once (no row lost).
C14_PagesAdvance ==
    frames[1].user_ids.kind = "all"
    => /\ frames[1].scans <= PagesOf(table, frames[1].pageSize)
       /\ \A r \in MatchingRows(table, frames[1].merchant_id) :
             Occurrences(r, frames[1].data) <= 1
       /\ frames[1].pc = "returned"
          => \A r \in MatchingRows(table, frames[1].merchant_id) :
                Occurrences(Target(r.PK, r.user_id), frames[1].result) = 1

\* C14, for a scan answered in one page: the loop makes one scan and the
\* result holds each Registration of the merchant exactly once.  Holds.
C14_OnePageReturns ==
    (frames[1].user_ids.kind = "all" /\ PagesOf(table, frames[1].pageSize) = 1)
    => /\ frames[1].scans <= 1
       /\ frames[1].scans = 1 => frames[1].done
       /\ frames[1].pc = "returned"
          => \A r \in MatchingRows(table, frames[1].merchant_id) :
                Occurrences(Target(r.PK, r.user_id), frames[1].result) = 1

\* a scan answered in more than one page: the loop is still not done after
\* MaxScans scans, each of them of page 1.  Reached.
C14_StillScanning ==
    /\ frames[1].scans = MaxScans
    /\ ~frames[1].done
    /\ frames[1].start_key # NoKey

\* ---- C15 ---------------------------------------------------------------
\* C15: a broadcast leaves the payload it was given as it was, and sends a
\* target whose user_id is in the allow-list the whole payload,
\* content.message included, also after a redacted copy was sent to an
\* earlier target.
C15_DeepCopyIsolation ==
    IsBroadcast
    => /\ payload = CallData
       /\ HasAllowList
          => \A k \in DOMAIN sent :
                targets[k].user_id \in AllowList
                => sent[k].data = [kind |-> "json", data |-> CallData]

\* C15 witness: a broadcast of a payload with content.message that sent a
\* redacted copy and, after it, the full payload to an allow-listed target.
C15_Witness ==
    /\ IsBroadcast /\ HasAllowList
    /\ HasMessage(CallData) /\ CallData.content.message # ""
    /\ \E j, k \in DOMAIN sent :
          /\ j < k
          /\ targets[j].user_id \notin AllowList
          /\ ~HasMessage(sent[j].data.data)
          /\ targets[k].user_id \in AllowList
          /\ HasMessage(sent[k].data.data)

\* ---- C16 ---------------------------------------------------------------
SendsTo(c) == {k \in DOMAIN sent : sent[k].cid = c}
\* a copy without a content.message to read (absent, or empty as settled
\* under C2)
Redacted(d) == ~HasMessage(d) \/ d.content.message = ""
AllUsersBackend ==
    /\ RoleIs("backend") /\ TruthyStr(CallMerchant) /\ CallSel = AllSel
    /\ HasAllowList
    /\ ~ScanFailed
    /\ \A r \in pre : conn[r.PK] = "live"

\* C16 (as claimed): a backend event for merchant m with selector __all__,
\* every registered connection live, sends exactly one message to each
\* connection registered under m, the full payload to the allow-listed and a
\* redacted one to the others, and nothing to any other connection.
C16_AllUsersBroadcast ==
    AllUsersBackend
    => /\ \A r \in pre :
             r.merchant_id = CallMerchant
             => /\ Cardinality(SendsTo(r.PK)) = 1
                /\ \A k \in SendsTo(r.PK) :
                      IF r.user_id \in AllowList
                      THEN sent[k].data = [kind |-> "json", data |-> CallData]
                      ELSE Redacted(sent[k].data.data)
       /\ \A k \in DOMAIN sent :
             \E r \in pre : r.PK = sent[k].cid /\ r.merchant_id = CallMerchant

\* C16, for the events whose handling returns without an exception (the
\* payload has content.message, the scan is answered in one page): holds.
C16_AllUsersWhenReturned ==
    (AllUsersBackend /\ raised = NoExc)
    => /\ \A r \in pre :
             r.merchant_id = CallMerchant
             => /\ Cardinality(SendsTo(r.PK)) = 1
                /\ \A k \in SendsTo(r.PK) :
                      IF r.user_id \in AllowList
                      THEN sent[k].data = [kind |-> "json", data |-> CallData]
                      ELSE Redacted(sent[k].data.data)
       /\ \A k \in DOMAIN sent :
             \E r \in pre : r.PK = sent[k].cid /\ r.merchant_id = CallMerchant

\* a backend event to all users of a merchant with two Registrations, one
\* allow-listed, while another merchant has a Registration: two sends, one
\* full and one redacted.  Reached.
C16_TwoSends ==
    /\ AllUsersBackend /\ raised = NoExc
    /\ Len(sent) = 2
    /\ \E j, k \in DOMAIN sent :
          HasMessage(sent[j].data.data) /\ ~HasMessage(sent[k].data.data)

\* ---- C17 ---------------------------------------------------------------
EmptyFrame == IsFrame /\ call.message.kind = "none"
OtherRoleFrame ==
    HasEnvelope /\ CallData.id.type \notin {"frontend", "backend", "ping"}

\* C17: a frame without a body, and a frame whose role is none of frontend,
\* backend and ping, raise nothing, send nothing and make no registry
\* operation: the registry is as before.
C17_EmptyOrOtherRoleNoEffect ==
    (EmptyFrame \/ OtherRoleFrame)
    => /\ raised = NoExc
       /\ sent = <<>>
       /\ ops = <<>>
       /\ table = pre

\* C17 witness: a frame of another role from a live registered connection.
C17_Witness ==
    /\ OtherRoleFrame
    /\ raised = NoExc /\ sent = <<>>
    /\ RowsOf(table, call.cid) # {}
    /\ conn[call.cid] = "live"

\* a frame without a body from a registered connection.  Reached.
C17_EmptyFrameSeen ==
    /\ EmptyFrame
    /\ raised = NoExc /\ sent = <<>>
    /\ RowsOf(table, call.cid) # {}

\* ---- C18 ---------------------------------------------------------------
Delivered(c) == \A k \in DOMAIN sent : sent[k].cid = c => sent[k].delivered

\* C18: a frame handled by Sender (ping, backend) creates and alters no
\* Registration: every row of the registry afterwards is a row it held
\* before; a row that is gone is that of a connection a send of this call was
\* refused for; the rows of the connections every send to which was
\* delivered, and of the connections nothing was sent to, are as before.
C18_SenderOnlyDeletesDead ==
    SendingFrame
    => /\ table \subseteq pre
       /\ \A r \in pre \ table :
             \E k \in DOMAIN sent : sent[k].cid = r.PK /\ ~sent[k].delivered
       /\ \A c \in CIDs : Delivered(c) => RowsOf(table, c) = RowsOf(pre, c)

\* C18 witness: a broadcast to two targets, one refused and deleted, the
\* other delivered and still registered as before.
C18_Witness ==
    /\ IsBroadcast /\ raised = NoExc
    /\ \E j, k \in DOMAIN sent :
          /\ ~sent[j].delivered /\ RowsOf(table, sent[j].cid) = {}
          /\ RowsOf(pre, sent[j].cid) # {}
          /\ sent[k].delivered /\ RowsOf(table, sent[k].cid) # {}
          /\ RowsOf(table, sent[k].cid) = RowsOf(pre, sent[k].cid)

\* ============================================ handlers run concurrently ====
\* The transport runs every event in an invocation of its own, and the
\* invocations of connect, disconnect and message overlap.  Here a handler
\* runs one store operation or one send at a time; between two of them any
\* other invocation may take a step.  frames holds the invocations started so
\* far, each with the locals of its handler:
\*   pc       "handle" / "delete" (entered), "broadcast" (in the for loop of
\*            Sender.broadcast), "done" (returned or raised)
\*   targets  connection_ids of Handler.handle, i the position in it
\*   sends    the sends made by it, and with each the Registration of the
\*            target in the table at that moment (history)
\* The store answers a scan in one page and no store operation fails here;
\* those cases are those of Spec.
MaxCalls == 3

RaceMsgs ==
    {m \in FrontendMsgs : TruthyStr(loads(m).id.merchant_id)
                          /\ TruthySel(AudienceData(loads(m)))}
    \cup {dumps([id |-> IdBlock("backend", m),
                 audience |-> [data |-> AllSel, message |-> a],
                 content |-> [alert |-> "success", message |-> "report finished"]]) :
             m \in Merchants, a \in SUBSET Users}
    \cup {PingMsg}

Frame(handler, c, message, pc) ==
    [handler |-> handler, cid |-> c, message |-> message, pc |-> pc,
     targets |-> <<>>, i |-> 1, sends |-> <<>>, raised |-> NoExc]

Client(f) == loads(f.message).id.type
Running(k, handler, pc) ==
    /\ k \in DOMAIN frames
    /\ frames[k].handler = handler /\ frames[k].pc = pc
OthersUnchanged == UNCHANGED <<call, pre, sent, ops, raised, targets, payload, returned>>

\* app.connect: create_connection logs only
RaceConnect(c) ==
    /\ conn[c] = "new"
    /\ conn' = [conn EXCEPT ![c] = "live"]
    /\ UNCHANGED <<table, frames>> /\ OthersUnchanged

\* app.message is invoked with a frame of connection c
StartMessage(c) ==
    /\ conn[c] \in {"live", "dropped"}
    /\ Len(frames) < MaxCalls
    /\ \E m \in RaceMsgs : frames' = Append(frames, Frame("message", c, m, "handle"))
    /\ UNCHANGED <<table, conn>> /\ OthersUnchanged

\* app.disconnect is invoked for connection c
StartDisconnect(c) ==
    /\ conn[c] = "dropped"
    /\ Len(frames) < MaxCalls
    /\ conn' = [conn EXCEPT ![c] = "closed"]
    /\ frames' = Append(frames, Frame("disconnect", c, NoBody, "delete"))
    /\ UNCHANGED table /\ OthersUnchanged

\* Handler.handle, client frontend: handle_frontend and its put_item
FrontendPut(k) ==
    /\ Running(k, "message", "handle") /\ Client(frames[k]) = "frontend"
    /\ LET f == frames[k]
           data == loads(f.message)
           es == handle_frontend(StartExec(table), f.cid, data.id.merchant_id,
                                 AudienceData(data), TRUE)
       IN /\ table' = es.table
          /\ frames' = [frames EXCEPT ![k].pc = "done", ![k].raised = es.raised]
    /\ UNCHANGED conn /\ OthersUnchanged

\* Handler.handle, client ping: Sender.send of "pong"
PingSend(k) ==
    /\ Running(k, "message", "handle") /\ Client(frames[k]) = "ping"
    /\ LET f == frames[k]
           es == send(StartExec(table), f.cid, Pong, liveNow, {})
       IN /\ table' = es.table
          /\ frames' = [frames EXCEPT ![k].pc = "done",
                           ![k].sends = Append(@, [send |-> es.sent[1],
                                                   registered |-> RowsOf(table, f.cid)])]
    /\ UNCHANGED conn /\ OthersUnchanged

\* Handler.handle, client backend: handle_backend and its scan
BackendResolve(k) ==
    /\ Running(k, "message", "handle") /\ Client(frames[k]) = "backend"
    /\ \E order \in Orders(table) :
          LET f == frames[k]
              data == loads(f.message)
              es == handle_backend(StartExec(table), data.id.merchant_id,
                                   AudienceData(data), order, TRUE,
                                   Cardinality(table) + 1)
          IN frames' = [frames EXCEPT ![k].targets = es.targets,
                           ![k].pc = IF es.targets # <<>> THEN "broadcast" ELSE "done"]
    /\ UNCHANGED <<table, conn>> /\ OthersUnchanged

\* one turn of `for cid in connection_ids:` of Sender.broadcast
BroadcastTurn(k) ==
    /\ Running(k, "message", "broadcast")
    /\ LET f == frames[k]
           cid == f.targets[f.i]
           es == broadcast_body([StartExec(table) EXCEPT !.payload = loads(f.message)],
                                cid, liveNow, {})
       IN /\ table' = es.table
          /\ frames' = [frames EXCEPT
                           ![k].sends = @ \o [j \in DOMAIN es.sent |->
                                                 [send |-> es.sent[j],
                                                  registered |-> RowsOf(table, cid.cid)]],
                           ![k].raised = es.raised,
                           ![k].i = @ + 1,
                           ![k].pc = IF es.raised # NoExc \/ f.i = Len(f.targets)
                                     THEN "done" ELSE "broadcast"]
    /\ UNCHANGED conn /\ OthersUnchanged

\* app.disconnect: delete_connection and its delete_item
DisconnectDelete(k) ==
    /\ Running(k, "disconnect", "delete")
    /\ table' = delete_connection(StartExec(table), frames[k].cid, TRUE).table
    /\ frames' = [frames EXCEPT ![k].pc = "done"]
    /\ UNCHANGED conn /\ OthersUnchanged

NextRace ==
    \/ \E c \in CIDs : RaceConnect(c) \/ Drop(c) \/ StartMessage(c) \/ StartDisconnect(c)
    \/ \E k \in 1..MaxCalls :
          \/ FrontendPut(k)
          \/ PingSend(k)
          \/ BackendResolve(k)
          \/ BroadcastTurn(k)
          \/ DisconnectDelete(k)

SpecRace == Init /\ [][NextRace]_vars

\* ---- C19 ---------------------------------------------------------------
HandlersDone(c) == \A k \in DOMAIN frames : frames[k].cid = c => frames[k].pc = "done"
DisconnectDone(c) ==
    \E k \in DOMAIN frames :
        frames[k].handler = "disconnect" /\ frames[k].cid = c /\ frames[k].pc = "done"

\* C19 (as claimed): once the disconnect handler of connection c and every
\* message handler of c have completed, in whatever order their store
\* operations were made, the registry holds no Registration of c.
C19_NoRegistrationAfterDisconnect ==
    \A c \in CIDs :
        (DisconnectDone(c) /\ HandlersDone(c)) => RowsOf(table, c) = {}

\* the disconnect of a registered connection with no message handler of it
\* in progress: its Registration is gone.  Reached.
C19_DisconnectAlone ==
    \E c \in CIDs :
        /\ DisconnectDone(c) /\ HandlersDone(c)
        /\ \E k \in DOMAIN frames :
              frames[k].cid = c /\ frames[k].handler = "message"
              /\ Client(frames[k]) = "frontend"
        /\ RowsOf(table, c) = {}

\* ---- C20 ---------------------------------------------------------------
FullPayload(f) == [kind |-> "json", data |-> loads(f.message)]

\* C20 (as claimed): whenever a broadcast delivers a payload with
\* content.message intact to a connection, the Registration of that
\* connection at the moment of the send has the merchant_id of the broadcast
\* and a user_id of the payload's allow-list.
C20_FullOnlyToAllowListedNow ==
    \A k \in DOMAIN frames :
        (frames[k].handler = "message" /\ Client(frames[k]) = "backend")
        => \A j \in DOMAIN frames[k].sends :
              LET s == frames[k].sends[j] IN
              (s.send.delivered /\ s.send.data = FullPayload(frames[k]))
              => \E r \in s.registered :
                    /\ r.merchant_id = loads(frames[k].message).id.merchant_id
                    /\ r.user_id \in loads(frames[k].message).audience.message

\* a broadcast that delivered the full payload to a connection registered,
\* at that moment, under the merchant and an allow-listed user.  Reached.
C20_FullToAllowListed ==
    \E k \in DOMAIN frames :
        /\ frames[k].handler = "message" /\ Client(frames[k]) = "backend"
        /\ \E j \in DOMAIN frames[k].sends :
              LET s == frames[k].sends[j] IN
              /\ s.send.delivered /\ s.send.data = FullPayload(frames[k])
              /\ \E r \in s.registered :
                    /\ r.merchant_id = loads(frames[k].message).id.merchant_id
                    /\ r.user_id \in loads(frames[k].message).audience.message

====
